---- MODULE Spec2Model ----
(***************************************************************************)
(* The question-normalization pipeline of services/geminiService.ts:       *)
(* markup repair, markup simplification, response extraction, question     *)
(* normalization and the two generation entry points.                      *)
(*                                                                         *)
(* A text is a sequence of characters; a character is a one-character      *)
(* string ("a", "\\", "{"), and a non-ASCII character is written by its    *)
(* code point ("U+00D7").                                                  *)
(***************************************************************************)
EXTENDS Integers, Sequences, FiniteSets, TLC

\* ------------------------------------------------------------------------
\* Bounds of the model
\* ------------------------------------------------------------------------

\* Number of tokens an input of the markup repair is built from.
MaxRepairTokens == 3

\* Number of tokens an input of the markup simplifier is built from.
MaxSimplifyTokens == 4

\* Number of elements of a response array.
MaxItems == 2

\* Number of options of a raw candidate.
MaxOptions == 3

\* Largest whole correct-answer index a raw candidate carries.
MaxIndexValue == 4

\* Largest value of the clock.
MaxClock == 1

\* Number of times in a row one markup function is applied to its own result.
MaxPasses == 2

\* ------------------------------------------------------------------------
\* Characters and regular-expression replacement (String.prototype.replace
\* with a /g pattern: leftmost match, then the scan resumes after the match)
\* ------------------------------------------------------------------------

\* The characters the class \s matches and trim() strips.
IsSpace(c) == c \in {" ", "\t", "\n", "\r", "\f"}

\* The class [A-Za-z0-9].
IsAlnum(c) ==
  c \in {"a","b","c","d","e","f","g","h","i","j","k","l","m","n","o","p","q",
         "r","s","t","u","v","w","x","y","z",
         "A","B","C","D","E","F","G","H","I","J","K","L","M","N","O","P","Q",
         "R","S","T","U","V","W","X","Y","Z",
         "0","1","2","3","4","5","6","7","8","9"}

\* The text s has p at position i (1-based).
StartsWith(s, i, p) ==
  /\ i >= 1
  /\ i + Len(p) - 1 <= Len(s)
  /\ \A j \in 1..Len(p) : s[i + j - 1] = p[j]

\* Position of the first c at or after position i; 0 when there is none.
IndexOfFrom(s, c, i) ==
  LET S == {j \in i..Len(s) : s[j] = c}
  IN IF S = {} THEN 0 ELSE CHOOSE j \in S : \A k \in S : j <= k

\* Position of the last c; 0 when there is none.
LastIndexOf(s, c) ==
  LET S == {j \in 1..Len(s) : s[j] = c}
  IN IF S = {} THEN 0 ELSE CHOOSE j \in S : \A k \in S : j >= k

NoMatch == [len |-> 0, rep |-> <<>>]

\* /tok/ replaced by rep: tok wherever it stands.
MatchLead_NoBoundary(s, i, tok, rep) ==
  IF StartsWith(s, i, tok) THEN [len |-> Len(tok), rep |-> rep] ELSE NoMatch

\* /(\s|^)tok/ replaced by '$1' + rep: tok after one whitespace character,
\* or at the start of the text.
MatchLead(s, i, tok, rep) ==
  IF IsSpace(s[i]) /\ StartsWith(s, i + 1, tok)
    THEN [len |-> 1 + Len(tok), rep |-> <<s[i]>> \o rep]
  ELSE IF i = 1 /\ StartsWith(s, 1, tok)
    THEN [len |-> Len(tok), rep |-> rep]
  ELSE NoMatch

\* The group (\s|$) at position e: one whitespace character, or the end.
TailAt(s, e) ==
  IF e <= Len(s) /\ IsSpace(s[e]) THEN [ok |-> TRUE, len |-> 1, txt |-> <<s[e]>>]
  ELSE IF e = Len(s) + 1 THEN [ok |-> TRUE, len |-> 0, txt |-> <<>>]
  ELSE [ok |-> FALSE, len |-> 0, txt |-> <<>>]

\* /(\s|^)word(\s|$)/ replaced by '$1' + rep + '$2'.
MatchWord(s, i, word, rep) ==
  IF IsSpace(s[i]) /\ StartsWith(s, i + 1, word)
       /\ TailAt(s, i + 1 + Len(word)).ok
    THEN LET tl == TailAt(s, i + 1 + Len(word))
         IN [len |-> 1 + Len(word) + tl.len, rep |-> <<s[i]>> \o rep \o tl.txt]
  ELSE IF i = 1 /\ StartsWith(s, 1, word) /\ TailAt(s, 1 + Len(word)).ok
    THEN LET tl == TailAt(s, 1 + Len(word))
         IN [len |-> Len(word) + tl.len, rep |-> rep \o tl.txt]
  ELSE NoMatch

\* /open([^}]*)\}/ replaced by keep + '$1': open (which ends in "{"), the
\* characters up to the first "}", and that "}".
MatchBraced(s, i, open, keep) ==
  IF StartsWith(s, i, open)
    THEN LET j == IndexOfFrom(s, "}", i + Len(open))
         IN IF j = 0 THEN NoMatch
            ELSE [len |-> j - i + 1,
                  rep |-> keep \o SubSeq(s, i + Len(open), j - 1)]
  ELSE NoMatch

\* /lit/ replaced by rep.
MatchLiteral(s, i, lit, rep) ==
  IF StartsWith(s, i, lit) THEN [len |-> Len(lit), rep |-> rep] ELSE NoMatch

\* /mark([A-Za-z0-9])/ replaced by mark + '$1'.
MatchMarked(s, i, mark) ==
  IF s[i] = mark /\ i + 1 <= Len(s) /\ IsAlnum(s[i + 1])
    THEN [len |-> 2, rep |-> <<mark, s[i + 1]>>]
  ELSE NoMatch

\* /\$([^\$]+)\$/ replaced by "$" + content + "$".
MatchDollar(s, i) ==
  IF s[i] = "$"
    THEN LET j == IndexOfFrom(s, "$", i + 1)
         IN IF j = 0 \/ j = i + 1 THEN NoMatch
            ELSE [len |-> j - i + 1,
                  rep |-> <<"$">> \o SubSeq(s, i + 1, j - 1) \o <<"$">>]
  ELSE NoMatch

\* /\s+/ replaced by " ".
RECURSIVE SpaceRun(_, _)
SpaceRun(s, i) ==
  IF i <= Len(s) /\ IsSpace(s[i]) THEN 1 + SpaceRun(s, i + 1) ELSE 0

MatchSpaces(s, i) ==
  IF IsSpace(s[i]) THEN [len |-> SpaceRun(s, i), rep |-> <<" ">>] ELSE NoMatch

\* The match of pattern p at position i of s.
MatchAt(p, s, i) ==
  CASE p.kind = "lead"    -> MatchLead(s, i, p.tok, p.rep)
    [] p.kind = "word"    -> MatchWord(s, i, p.tok, p.rep)
    [] p.kind = "braced"  -> MatchBraced(s, i, p.tok, p.rep)
    [] p.kind = "literal" -> MatchLiteral(s, i, p.tok, p.rep)
    [] p.kind = "marked"  -> MatchMarked(s, i, p.tok[1])
    [] p.kind = "dollar"  -> MatchDollar(s, i)
    [] p.kind = "spaces"  -> MatchSpaces(s, i)

Pattern(kind, tok, rep) == [kind |-> kind, tok |-> tok, rep |-> rep]

RECURSIVE ReplaceFrom(_, _, _)
ReplaceFrom(p, s, i) ==
  IF i > Len(s) THEN <<>>
  ELSE LET m == MatchAt(p, s, i)
       IN IF m.len > 0 THEN m.rep \o ReplaceFrom(p, s, i + m.len)
          ELSE <<s[i]>> \o ReplaceFrom(p, s, i + 1)

\* s.replace(/p/g, ...): s itself when the pattern matches nowhere.
ReplaceAll(p, s) ==
  IF \A i \in 1..Len(s) : MatchAt(p, s, i).len = 0 THEN s
  ELSE ReplaceFrom(p, s, 1)

\* s.trim()
Trim(s) ==
  LET K == {j \in 1..Len(s) : ~IsSpace(s[j])}
  IN IF K = {} THEN <<>>
     ELSE SubSeq(s, CHOOSE j \in K : \A k \in K : j <= k,
                    CHOOSE j \in K : \A k \in K : j >= k)

\* The texts of the sequence ts, one after the other.
RECURSIVE Concat(_)
Concat(ts) == IF ts = <<>> THEN <<>> ELSE Head(ts) \o Concat(Tail(ts))

\* ------------------------------------------------------------------------
\* Markup repair
\* ------------------------------------------------------------------------

BS == "\\"

RepairPatterns ==
  << Pattern("lead", <<"e","x","t","{">>, <<BS,"t","e","x","t","{">>),
     Pattern("lead", <<"f","r","a","c","{">>, <<BS,"f","r","a","c","{">>),
     Pattern("lead", <<"s","q","r","t","{">>, <<BS,"s","q","r","t","{">>),
     Pattern("word", <<"t","i","m","e","s">>, <<BS,"t","i","m","e","s">>),
     Pattern("word", <<"m","u">>, <<BS,"m","u">>),
     Pattern("word", <<"p","i">>, <<BS,"p","i">>),
     Pattern("word", <<"t","h","e","t","a">>, <<BS,"t","h","e","t","a">>),
     Pattern("dollar", <<>>, <<>>) >>

\* The chain t.replace(p1, ..).replace(p2, ..)...: the first n patterns of ps
\* applied to s in order.
RECURSIVE ReplaceChain(_, _, _)
ReplaceChain(ps, n, s) ==
  IF n = 0 THEN s ELSE ReplaceAll(ps[n], ReplaceChain(ps, n - 1, s))

repairMalformedLatex(text) ==
  IF text = <<>> THEN <<>>
  ELSE ReplaceChain(RepairPatterns, Len(RepairPatterns), text)

\* ------------------------------------------------------------------------
\* Markup simplification
\* ------------------------------------------------------------------------

SimplifyPatterns ==
  << Pattern("literal", <<"$">>, <<>>),
     Pattern("braced", <<BS,"t","e","x","t","{">>, <<>>),
     Pattern("braced", <<BS,"m","a","t","h","r","m","{">>, <<>>),
     Pattern("braced", <<"^","{">>, <<"^">>),
     Pattern("braced", <<"_","{">>, <<"_">>),
     Pattern("marked", <<"^">>, <<>>),
     Pattern("marked", <<"_">>, <<>>),
     Pattern("literal", <<BS,",">>, <<" ">>),
     Pattern("literal", <<BS,";">>, <<" ">>),
     Pattern("literal", <<BS,":">>, <<" ">>),
     Pattern("literal", <<BS,"t","i","m","e","s">>, <<"U+00D7">>),
     Pattern("literal", <<BS,"m","u">>, <<"U+03BC">>),
     Pattern("literal", <<BS,"c","i","r","c">>, <<"U+00B0">>),
     Pattern("literal", <<BS,"p","i">>, <<"U+03C0">>),
     Pattern("literal", <<BS,"t","h","e","t","a">>, <<"U+03B8">>),
     Pattern("literal", <<BS,"D","e","l","t","a">>, <<"U+0394">>),
     Pattern("literal", <<BS,"O","m","e","g","a">>, <<"U+03A9">>),
     Pattern("spaces", <<>>, <<>>) >>

latexToSimple(text) ==
  IF text = <<>> THEN <<>>
  ELSE Trim(ReplaceChain(SimplifyPatterns, Len(SimplifyPatterns), text))

\* ------------------------------------------------------------------------
\* JSON values
\*
\* Every value is a record of one shape: t is its kind, n the number (in
\* tenths, so that 1.5 is 15) or the truth value (1, 0), s the characters of
\* a string, a the elements of an array or the member values of an object,
\* k the member names of an object.
\* ------------------------------------------------------------------------

QUOTE == "\""

\* The backtick character.
TICK == "U+0060"

JV(t, n, s, a, k) == [t |-> t, n |-> n, s |-> s, a |-> a, k |-> k]
JUndefined == JV("undefined", 0, <<>>, <<>>, <<>>)
JNull == JV("null", 0, <<>>, <<>>, <<>>)
JBool(b) == JV("boolean", IF b THEN 1 ELSE 0, <<>>, <<>>, <<>>)
JNum(tenths) == JV("number", tenths, <<>>, <<>>, <<>>)
JInt(i) == JNum(i * 10)
JStr(s) == JV("string", 0, s, <<>>, <<>>)
JArr(a) == JV("array", 0, <<>>, a, <<>>)
JObj(k, a) == JV("object", 0, <<>>, a, k)

\* Reading v.key where v is neither null nor undefined: the member of that
\* name of an object (the last one when JSON.parse saw the name twice),
\* undefined for every other value.
Get(v, key) ==
  IF v.t = "object" /\ \E i \in 1..Len(v.k) : v.k[i] = key
    THEN v.a[CHOOSE i \in 1..Len(v.k) :
                 v.k[i] = key /\ \A j \in 1..Len(v.k) : v.k[j] = key => j <= i]
  ELSE JUndefined

\* ToBoolean
Truthy(v) ==
  CASE v.t \in {"undefined", "null"} -> FALSE
    [] v.t = "boolean" -> v.n = 1
    [] v.t = "number" -> v.n # 0
    [] v.t = "string" -> v.s # <<>>
    [] OTHER -> TRUE

\* a || b
OrElse(a, b) == IF Truthy(a) THEN a ELSE b

DigitChars == <<"0","1","2","3","4","5","6","7","8","9">>

\* The decimal digits of a natural number.
RECURSIVE IntToChars(_)
IntToChars(i) ==
  IF i < 10 THEN <<DigitChars[i + 1]>>
  ELSE IntToChars(i \div 10) \o <<DigitChars[(i % 10) + 1]>>

\* Number to string, for a number in tenths.
NumToChars(n) ==
  LET m == IF n < 0 THEN -n ELSE n
  IN (IF n < 0 THEN <<"-">> ELSE <<>>)
       \o IntToChars(m \div 10)
       \o (IF m % 10 # 0 THEN <<".", DigitChars[(m % 10) + 1]>> ELSE <<>>)

\* String(v)
RECURSIVE JSString(_)
JSString(v) ==
  CASE v.t = "undefined" -> <<"u","n","d","e","f","i","n","e","d">>
    [] v.t = "null" -> <<"n","u","l","l">>
    [] v.t = "boolean" -> IF v.n = 1 THEN <<"t","r","u","e">> ELSE <<"f","a","l","s","e">>
    [] v.t = "number" -> NumToChars(v.n)
    [] v.t = "string" -> v.s
    [] v.t = "array" ->
         Concat([i \in 1..Len(v.a) |->
                   (IF i > 1 THEN <<",">> ELSE <<>>)
                     \o (IF v.a[i].t \in {"undefined", "null"} THEN <<>>
                         ELSE JSString(v.a[i]))])
    [] v.t = "object" -> <<"[","o","b","j","e","c","t"," ","O","b","j","e","c","t","]">>

\* The value of c as a digit (decimal or hexadecimal); 99 when it is none.
DigitValue(c) ==
  IF \E d \in 1..10 : DigitChars[d] = c
    THEN (CHOOSE d \in 1..10 : DigitChars[d] = c) - 1
  ELSE CASE c \in {"a", "A"} -> 10 [] c \in {"b", "B"} -> 11
         [] c \in {"c", "C"} -> 12 [] c \in {"d", "D"} -> 13
         [] c \in {"e", "E"} -> 14 [] c \in {"f", "F"} -> 15
         [] OTHER -> 99

\* The number of characters of s from position i on that are digits of the
\* radix, up to the first that is none.
RECURSIVE DigitRunFrom(_, _, _)
DigitRunFrom(s, i, radix) ==
  IF i <= Len(s) /\ DigitValue(s[i]) < radix
    THEN 1 + DigitRunFrom(s, i + 1, radix)
  ELSE 0

DigitRun(s, radix) == DigitRunFrom(s, 1, radix)

\* The value of the digits s[1..n] in the radix.
RECURSIVE DigitsValue(_, _, _)
DigitsValue(s, n, radix) ==
  IF n = 0 THEN 0
  ELSE DigitsValue(s, n - 1, radix) * radix + DigitValue(s[n])

\* parseInt(s): leading whitespace, a sign, a 0x prefix, then as many digits
\* as there are; NaN when there is none.
parseInt(s) ==
  LET K == {j \in 1..Len(s) : ~IsSpace(s[j])}
      t == IF K = {} THEN <<>>
           ELSE SubSeq(s, CHOOSE j \in K : \A k \in K : j <= k, Len(s))
      neg == t # <<>> /\ t[1] = "-"
      u == IF t # <<>> /\ t[1] \in {"+", "-"} THEN Tail(t) ELSE t
      hex == Len(u) >= 2 /\ u[1] = "0" /\ u[2] \in {"x", "X"}
      radix == IF hex THEN 16 ELSE 10
      d == IF hex THEN SubSeq(u, 3, Len(u)) ELSE u
      n == DigitRun(d, radix)
      v == DigitsValue(d, n, radix)
  IN IF n = 0 THEN [nan |-> TRUE, v |-> 0]
     ELSE [nan |-> FALSE, v |-> IF neg THEN -v ELSE v]

\* ------------------------------------------------------------------------
\* JSON.parse, on the JSON this model's responses are written in: null,
\* true, false, numbers with at most one fractional digit and no exponent,
\* strings with the escapes \" \\ \/ \n \t \r \f, arrays and objects.
\* ------------------------------------------------------------------------

IsJsonSpace(c) == c \in {" ", "\t", "\n", "\r"}

\* The first position at or after i that holds no JSON whitespace.
RECURSIVE SkipSpace(_, _)
SkipSpace(s, i) ==
  IF i <= Len(s) /\ IsJsonSpace(s[i]) THEN SkipSpace(s, i + 1) ELSE i

ParseFail == [ok |-> FALSE, v |-> JUndefined, pos |-> 0]
Parsed(v, pos) == [ok |-> TRUE, v |-> v, pos |-> pos]

\* The character an escape \c stands for; "" when \c is no escape.
Unescape(c) ==
  CASE c = QUOTE -> QUOTE [] c = BS -> BS [] c = "/" -> "/"
    [] c = "n" -> "\n" [] c = "t" -> "\t" [] c = "r" -> "\r" [] c = "f" -> "\f"
    [] OTHER -> ""

\* The rest of a string literal from position i on, acc being the characters
\* read so far.
RECURSIVE ParseStringFrom(_, _, _)
ParseStringFrom(s, i, acc) ==
  IF i > Len(s) THEN ParseFail
  ELSE IF s[i] = QUOTE THEN Parsed(JStr(acc), i + 1)
  ELSE IF s[i] = BS
    THEN IF i + 1 <= Len(s) /\ Unescape(s[i + 1]) # ""
           THEN ParseStringFrom(s, i + 2, Append(acc, Unescape(s[i + 1])))
         ELSE ParseFail
  ELSE IF s[i] \in {"\n", "\t", "\r", "\f"} THEN ParseFail
  ELSE ParseStringFrom(s, i + 1, Append(acc, s[i]))

\* A number literal at position i.
ParseNumber(s, i) ==
  LET neg == s[i] = "-"
      b == IF neg THEN i + 1 ELSE i
      rest == SubSeq(s, b, Len(s))
      run == DigitRun(rest, 10)
      n == IF run >= 1 /\ rest[1] = "0" THEN 1 ELSE run
      ip == DigitsValue(rest, n, 10)
      frac == IF n + 1 <= Len(rest) /\ rest[n + 1] = "."
                THEN DigitRun(SubSeq(rest, n + 2, Len(rest)), 10) ELSE 0
      dotted == n + 1 <= Len(rest) /\ rest[n + 1] = "."
      fp == IF frac >= 1 THEN DigitValue(rest[n + 2]) ELSE 0
      val == ip * 10 + fp
  IN IF n = 0 \/ (dotted /\ frac = 0) THEN ParseFail
     ELSE Parsed(JNum(IF neg THEN -val ELSE val),
                 b + n + (IF dotted THEN 1 + frac ELSE 0))

RECURSIVE ParseValue(_, _)
RECURSIVE ParseElements(_, _, _)
RECURSIVE ParseMembers(_, _, _, _)

\* The JSON value that starts at position i (after whitespace).
ParseValue(s, i0) ==
  LET i == SkipSpace(s, i0)
  IN IF i > Len(s) THEN ParseFail
     ELSE IF s[i] = "[" THEN
       IF SkipSpace(s, i + 1) <= Len(s) /\ s[SkipSpace(s, i + 1)] = "]"
         THEN Parsed(JArr(<<>>), SkipSpace(s, i + 1) + 1)
       ELSE ParseElements(s, i + 1, <<>>)
     ELSE IF s[i] = "{" THEN
       IF SkipSpace(s, i + 1) <= Len(s) /\ s[SkipSpace(s, i + 1)] = "}"
         THEN Parsed(JObj(<<>>, <<>>), SkipSpace(s, i + 1) + 1)
       ELSE ParseMembers(s, i + 1, <<>>, <<>>)
     ELSE IF s[i] = QUOTE THEN ParseStringFrom(s, i + 1, <<>>)
     ELSE IF s[i] = "-" \/ DigitValue(s[i]) < 10 THEN ParseNumber(s, i)
     ELSE IF StartsWith(s, i, <<"n","u","l","l">>) THEN Parsed(JNull, i + 4)
     ELSE IF StartsWith(s, i, <<"t","r","u","e">>) THEN Parsed(JBool(TRUE), i + 4)
     ELSE IF StartsWith(s, i, <<"f","a","l","s","e">>)
       THEN Parsed(JBool(FALSE), i + 5)
     ELSE ParseFail

\* The elements of an array from position i on, up to its "]".
ParseElements(s, i, acc) ==
  LET r == ParseValue(s, i)
      j == SkipSpace(s, r.pos)
  IN IF ~r.ok \/ j > Len(s) THEN ParseFail
     ELSE IF s[j] = "," THEN ParseElements(s, j + 1, Append(acc, r.v))
     ELSE IF s[j] = "]" THEN Parsed(JArr(Append(acc, r.v)), j + 1)
     ELSE ParseFail

\* The members of an object from position i on, up to its "}".
ParseMembers(s, i, keys, vals) ==
  LET ki == SkipSpace(s, i)
      key == IF ki <= Len(s) /\ s[ki] = QUOTE
               THEN ParseStringFrom(s, ki + 1, <<>>) ELSE ParseFail
      c == SkipSpace(s, key.pos)
      r == IF key.ok /\ c <= Len(s) /\ s[c] = ":"
             THEN ParseValue(s, c + 1) ELSE ParseFail
      j == SkipSpace(s, r.pos)
  IN IF ~r.ok \/ j > Len(s) THEN ParseFail
     ELSE IF s[j] = ","
       THEN ParseMembers(s, j + 1, Append(keys, key.v.s), Append(vals, r.v))
     ELSE IF s[j] = "}"
       THEN Parsed(JObj(Append(keys, key.v.s), Append(vals, r.v)), j + 1)
     ELSE ParseFail

\* JSON.parse(s): ok is FALSE when it raises a SyntaxError.
JSONParse(s) ==
  LET r == ParseValue(s, 1)
  IN IF r.ok /\ SkipSpace(s, r.pos) = Len(s) + 1
       THEN [ok |-> TRUE, v |-> r.v]
     ELSE [ok |-> FALSE, v |-> JUndefined]

\* ------------------------------------------------------------------------
\* Response extraction
\* ------------------------------------------------------------------------

\* text.substring(from, to) for 1-based positions from..to-1: the arguments
\* are swapped when from is the larger.
Substring(text, from, to) ==
  IF from <= to THEN SubSeq(text, from, to - 1) ELSE SubSeq(text, to, from - 1)

FenceJson == <<TICK,TICK,TICK,"j","s","o","n">>
Fence == <<TICK,TICK,TICK>>

\* The candidate of the first strategy: from the first "[" to the last "]".
jsonCandidate(text) ==
  Substring(text, IndexOfFrom(text, "[", 1), LastIndexOf(text, "]") + 1)

\* The text of the second strategy: fence markers removed, trimmed.
cleanText(text) ==
  Trim(ReplaceAll(Pattern("literal", Fence, <<>>),
                  ReplaceAll(Pattern("literal", FenceJson, <<>>), text)))

\* The text JSON.parse is given: the bracketed candidate when the text has
\* both a "[" and a "]", the cleaned text otherwise.
ParseInput(text) ==
  IF IndexOfFrom(text, "[", 1) # 0 /\ LastIndexOf(text, "]") # 0
    THEN jsonCandidate(text)
  ELSE cleanText(text)

\* A SyntaxError of JSON.parse is caught: the failure is logged and the
\* empty array returned.
cleanAndParseJSON(text) ==
  IF text = <<>> THEN JArr(<<>>)
  ELSE LET r == JSONParse(ParseInput(text))
       IN IF r.ok THEN r.v ELSE JArr(<<>>)

\* ------------------------------------------------------------------------
\* Question normalization
\* ------------------------------------------------------------------------

K_question == <<"q","u","e","s","t","i","o","n">>
K_Question == <<"Q","u","e","s","t","i","o","n">>
K_text == <<"t","e","x","t">>
K_query == <<"q","u","e","r","y">>
K_options == <<"o","p","t","i","o","n","s">>
K_Options == <<"O","p","t","i","o","n","s">>
K_choices == <<"c","h","o","i","c","e","s">>
K_answers == <<"a","n","s","w","e","r","s">>
K_correctIndex == <<"c","o","r","r","e","c","t","I","n","d","e","x">>
K_answerIndex == <<"a","n","s","w","e","r","I","n","d","e","x">>
K_explanation == <<"e","x","p","l","a","n","a","t","i","o","n">>
K_Explanation == <<"E","x","p","l","a","n","a","t","i","o","n">>

NoExplanation == <<"N","o"," ","e","x","p","l","a","n","a","t","i","o","n"," ","p","r","o","v","i","d","e","d",".">>

questionText(q) ==
  OrElse(OrElse(OrElse(Get(q, K_question), Get(q, K_Question)),
                Get(q, K_text)), Get(q, K_query))

optionsList(q) ==
  OrElse(OrElse(OrElse(Get(q, K_options), Get(q, K_Options)),
                Get(q, K_choices)), Get(q, K_answers))

\* The validation without its test of the number of options.
IsInvalid_NoLength(q) ==
  \/ ~Truthy(questionText(q))
  \/ optionsList(q).t # "array"

\* The validation of the essential fields: TRUE when the candidate is skipped.
IsInvalid(q) ==
  \/ ~Truthy(questionText(q))
  \/ optionsList(q).t # "array"
  \/ Len(optionsList(q).a) < 2

\* Pipeline: repair broken tags, then convert to human readable.
processText(txt) == latexToSimple(repairMalformedLatex(JSString(txt)))

cleanOptions(q) ==
  [i \in 1..Len(optionsList(q).a) |-> processText(optionsList(q).a[i])]

\* The resolution with the alternate key consulted before a string is parsed.
resolveIndex_AnswerFirst(q) ==
  IF Get(q, K_correctIndex).t = "number" THEN Get(q, K_correctIndex).n
  ELSE IF Get(q, K_answerIndex).t = "number" THEN Get(q, K_answerIndex).n
  ELSE IF Get(q, K_correctIndex).t = "string"
    THEN LET r == parseInt(Get(q, K_correctIndex).s)
         IN IF r.nan THEN 0 ELSE r.v * 10
  ELSE 0

\* The correct index before clamping (in tenths, as every number).
resolveIndex(q) ==
  IF Get(q, K_correctIndex).t = "number" THEN Get(q, K_correctIndex).n
  ELSE IF Get(q, K_correctIndex).t = "string"
    THEN LET r == parseInt(Get(q, K_correctIndex).s)
         IN IF r.nan THEN 0 ELSE r.v * 10
  ELSE IF Get(q, K_answerIndex).t = "number" THEN Get(q, K_answerIndex).n
  ELSE 0

\* The clamp without its lower limit.
clampIndex_NoLower(v, len) == IF v >= len * 10 THEN (len - 1) * 10 ELSE v

\* The clamp without its upper limit.
clampIndex_NoUpper(v, len) == IF v < 0 THEN 0 ELSE v

\* The clamp with an upper limit one too large.
clampIndex_UpperToLen(v, len) ==
  LET low == IF v < 0 THEN 0 ELSE v
  IN IF low >= len * 10 THEN len * 10 ELSE low

\* The clamp of the index v (in tenths) for len options.
clampIndex(v, len) ==
  LET low == IF v < 0 THEN 0 ELSE v
  IN IF low >= len * 10 THEN (len - 1) * 10 ELSE low

\* `${prefix}-${Date.now()}`
questionId_NoIndex(prefix, now, index) ==
  prefix \o <<"-">> \o IntToChars(now)

\* `${prefix}-${Date.now()}-${index}`
questionId(prefix, now, index) ==
  prefix \o <<"-">> \o IntToChars(now) \o <<"-">> \o IntToChars(index)

Question(id, text, options, correctIndex, explanation) ==
  [id |-> id, text |-> text, options |-> options,
   correctIndex |-> correctIndex, explanation |-> explanation]

NoQuestion == Question(<<>>, <<>>, <<>>, 0, <<>>)

\* What a call of normalizeQuestion comes to: a question, null, or a
\* TypeError raised by reading a property of null or undefined.
Returned(question) == [kind |-> "question", q |-> question]
ReturnedNull == [kind |-> "null", q |-> NoQuestion]
Raised == [kind |-> "throw", q |-> NoQuestion]

\* normalizeQuestion(q, index, prefix), now being the value of Date.now().
normalizeQuestion(q, index, prefix, now) ==
  IF q.t \in {"null", "undefined"} THEN Raised
  ELSE IF IsInvalid(q) THEN ReturnedNull
  ELSE Returned(Question(
         questionId(prefix, now, index),
         processText(questionText(q)),
         cleanOptions(q),
         clampIndex(resolveIndex(q), Len(cleanOptions(q))),
         processText(OrElse(OrElse(Get(q, K_explanation), Get(q, K_Explanation)),
                            JStr(NoExplanation)))))

\* ------------------------------------------------------------------------
\* Question generation requests
\* ------------------------------------------------------------------------

Prefix(e) == IF e = "battle" THEN <<"b","a","t","t","l","e">> ELSE <<"p","r","a","c","t","i","c","e">>

\* What the body of a try block comes to: a value, or an exception.
Completed(value) == [thrown |-> FALSE, value |-> value]
Threw == [thrown |-> TRUE, value |-> <<>>]

\* cleanAndParseJSON(response.text || "[]")
rawDataOf(responseText) ==
  cleanAndParseJSON(IF responseText = <<>> THEN <<"[", "]">> ELSE responseText)

\* rawData.map((q, i) => normalizeQuestion(q, i, prefix)), stamps[i] being
\* the value of Date.now() while element i is normalized.
mapNormalize(rawData, prefix, stamps) ==
  [i \in 1..Len(rawData.a) |->
     normalizeQuestion(rawData.a[i], i - 1, prefix, stamps[i])]

\* .filter(q => q !== null)
RECURSIVE filterNull(_)
filterNull(outs) ==
  IF outs = <<>> THEN <<>>
  ELSE (IF Head(outs).kind = "question" THEN <<Head(outs).q>> ELSE <<>>)
         \o filterNull(Tail(outs))

\* The statements of the try block after the model has answered: a value
\* that has no map method, or an element normalizeQuestion raises on, ends
\* them with a TypeError.
afterResponse(rawData, prefix, stamps) ==
  IF rawData.t # "array" THEN Threw
  ELSE LET mapped == mapNormalize(rawData, prefix, stamps)
       IN IF \E i \in 1..Len(mapped) : mapped[i].kind = "throw" THEN Threw
          ELSE Completed(filterNull(mapped))

\* A catch block that lets the exception go on to the caller.
catchError_Rethrow(outcome) == outcome

\* catch (error) { console.error(...); return []; }
catchError(outcome) == IF outcome.thrown THEN Completed(<<>>) ELSE outcome

\* ------------------------------------------------------------------------
\* State
\* ------------------------------------------------------------------------

VARIABLES
  mOp,      \* the markup function under application: "repair" or "simplify"
  mIn,      \* the text it was first given
  mPasses,  \* how many times it has been applied so far
  mPrev,    \* its argument at the latest application
  mCur      \* its latest result (the input itself before any application)

VARIABLES
  nPc,      \* "ready" before the call of normalizeQuestion, "done" after it
  nRaw,     \* the raw candidate
  nIndex,   \* its position index
  nPrefix,  \* the batch prefix
  nOut      \* what the call came to

VARIABLES
  pc,            \* "idle", "awaiting" (the model call is in flight), "returned"
  entry,         \* the entry point called: "battle" or "practice" ("none" before)
  now,           \* the clock Date.now() reads
  modelFailed,   \* the model call of the latest request raised
  responseText,  \* response.text of the latest request
  rawData,       \* what cleanAndParseJSON returned in the latest request
  outcome        \* what the caller of the latest request received

VARIABLES
  mode,              \* the screen shown: "MENU", "BATTLE" or "PRACTICE" ("NONE": no app)
  gameState,         \* BattleMode: 'SETUP', 'LOADING', 'PLAYING' or 'FINISHED'
  questions,         \* the questions of the mounted flow
  currentQIndex,     \* the position of the question shown
  scores,            \* BattleMode: the points of P1 and P2
  winner,            \* BattleMode: "P1", "P2", "DRAW" or "null"
  locked,            \* BattleMode: the round has been answered
  lastRoundWinner,   \* BattleMode: "P1", "P2" or "null"
  timers,            \* BattleMode: the pending setTimeout callbacks, in order
  step,              \* PracticeMode: 1 subject, 2 chapter, 3 config, 4 quiz, 5 result
  loading,           \* PracticeMode: the loading flag
  answers,           \* PracticeMode: the option selected per question, -1 for none
  autoAdvanceTimer,  \* PracticeMode: the callback autoAdvanceTimerRef holds
  shown,             \* PracticeMode: the render on screen, when it is not the latest state
  inFlight,          \* the generation requests of the mounted flow not yet resolved
  qs,                \* what the latest request of the mounted flow resolved with
  answerLog,         \* BattleMode: the answers handleAnswer has accepted, in order
  service            \* per entry point, the arrays of questions it can resolve with

markupVars == <<mOp, mIn, mPasses, mPrev, mCur>>
normalizeVars == <<nPc, nRaw, nIndex, nPrefix, nOut>>
requestVars == <<pc, entry, now, modelFailed, responseText, rawData, outcome>>
battleVars == <<gameState, scores, winner, locked, lastRoundWinner, timers, answerLog>>
practiceVars == <<step, loading, answers, autoAdvanceTimer, shown>>
appVars ==
  <<mode, questions, currentQIndex, inFlight, qs, battleVars, practiceVars, service>>
vars == <<markupVars, normalizeVars, requestVars, appVars>>

\* The variables of a part of the model no action of a specification touches.
MarkupIdle ==
  mOp = "none" /\ mIn = <<>> /\ mPasses = 0 /\ mPrev = <<>> /\ mCur = <<>>
NormalizeIdle ==
  /\ nPc = "none" /\ nRaw = JUndefined /\ nIndex = 0 /\ nPrefix = <<>>
  /\ nOut = ReturnedNull
RequestIdle ==
  /\ pc = "idle" /\ entry = "none" /\ now = 0 /\ modelFailed = FALSE
  /\ responseText = <<>> /\ rawData = JUndefined /\ outcome = Completed(<<>>)

\* No callback of the auto-advance timer is pending.
NoTimer == [pending |-> FALSE, currentQIndex |-> 0, length |-> 0]

\* The screen shows the render of the latest state.
Latest == [stale |-> FALSE, currentQIndex |-> 0]

\* The state a flow is mounted with (the initial values of its useState and
\* useRef calls).
FlowInitial ==
  /\ gameState = "SETUP" /\ questions = <<>> /\ currentQIndex = 0
  /\ scores = [P1 |-> 0, P2 |-> 0] /\ winner = "null"
  /\ locked = FALSE /\ lastRoundWinner = "null" /\ timers = <<>>
  /\ step = 1 /\ loading = FALSE /\ answers = <<>>
  /\ autoAdvanceTimer = NoTimer /\ shown = Latest
  /\ inFlight = 0 /\ qs = <<>> /\ answerLog = <<>>

AppIdle == mode = "NONE" /\ FlowInitial /\ service = [battle |-> {}, practice |-> {}]

\* ------------------------------------------------------------------------
\* Markup functions applied to bounded inputs
\* ------------------------------------------------------------------------

\* The texts made of at most n tokens of T.
TextsOver(T, n) == {Concat(ts) : ts \in UNION {[1..k -> T] : k \in 0..n}}

RepairTokens ==
  { <<" ">>, <<"a">>, <<BS>>, <<"$">>,
    <<"t","i","m","e","s">>, <<"m","u">>, <<"p","i">>, <<"t","h","e","t","a">>,
    <<"e","x","t","{">>, <<"f","r","a","c","{">>, <<"s","q","r","t","{">> }

SimplifyTokens ==
  { <<" ">>, <<"a">>, <<"}">>, <<"$">>, <<"^","{">>, <<"_","{">>,
    <<BS,"t","e","x","t","{">>, <<BS,"t","i","m","e","s">>, <<BS,",">> }

MarkupInit ==
  /\ \/ mOp = "repair" /\ mIn \in TextsOver(RepairTokens, MaxRepairTokens)
     \/ mOp = "simplify" /\ mIn \in TextsOver(SimplifyTokens, MaxSimplifyTokens)
  /\ mPasses = 0
  /\ mPrev = <<>>
  /\ mCur = mIn
  /\ NormalizeIdle
  /\ RequestIdle
  /\ AppIdle

\* t = repairMalformedLatex(t)
Repair ==
  /\ mOp = "repair"
  /\ mPasses < MaxPasses
  /\ mPasses' = mPasses + 1
  /\ mPrev' = mCur
  /\ mCur' = repairMalformedLatex(mCur)
  /\ UNCHANGED <<mOp, mIn, normalizeVars, requestVars, appVars>>

\* t = latexToSimple(t)
Simplify ==
  /\ mOp = "simplify"
  /\ mPasses < MaxPasses
  /\ mPasses' = mPasses + 1
  /\ mPrev' = mCur
  /\ mCur' = latexToSimple(mCur)
  /\ UNCHANGED <<mOp, mIn, normalizeVars, requestVars, appVars>>

MarkupNext == Repair \/ Simplify

SpecMarkup == MarkupInit /\ [][MarkupNext]_vars

\* ------------------------------------------------------------------------
\* normalizeQuestion applied to bounded raw candidates
\* ------------------------------------------------------------------------

\* Writing a value as JSON text.
EscapeChar(c) ==
  CASE c = QUOTE -> <<BS, QUOTE>> [] c = BS -> <<BS, BS>>
    [] c = "\n" -> <<BS, "n">> [] c = "\t" -> <<BS, "t">>
    [] OTHER -> <<c>>

RECURSIVE Stringify(_)
Stringify(v) ==
  CASE v.t = "null" -> <<"n","u","l","l">>
    [] v.t = "boolean" ->
         IF v.n = 1 THEN <<"t","r","u","e">> ELSE <<"f","a","l","s","e">>
    [] v.t = "number" -> NumToChars(v.n)
    [] v.t = "string" ->
         <<QUOTE>> \o Concat([i \in 1..Len(v.s) |-> EscapeChar(v.s[i])]) \o <<QUOTE>>
    [] v.t = "array" ->
         <<"[">> \o Concat([i \in 1..Len(v.a) |->
                    (IF i > 1 THEN <<",">> ELSE <<>>) \o Stringify(v.a[i])])
                 \o <<"]">>
    [] v.t = "object" ->
         <<"{">> \o Concat([i \in 1..Len(v.a) |->
                    (IF i > 1 THEN <<",">> ELSE <<>>)
                      \o <<QUOTE>> \o v.k[i] \o <<QUOTE, ":">> \o Stringify(v.a[i])])
                 \o <<"}">>

\* An object of the members ms, each a pair <<name, value>>.
Obj(ms) == JObj([i \in 1..Len(ms) |-> ms[i][1]], [i \in 1..Len(ms) |-> ms[i][2]])

K_Answers == <<"A","n","s","w","e","r","s">>

OptionLetters == <<"A", "B", "C", "D", "E", "F">>

\* The array of the first n option strings.
Options(n) == JArr([i \in 1..n |-> JStr(<<OptionLetters[i]>>)])

\* The members a raw candidate carries its question text in.
QuestionMembers ==
  {<<>>, << <<K_question, JStr(<<>>)>> >>,
         << <<K_question, JStr(<<>>)>>, <<K_Question, JStr(<<"Q">>)>> >>,
         << <<K_question, JNull>>, <<K_query, JInt(7)>> >>}
  \cup {<< <<key, JStr(<<"Q">>)>> >> :
          key \in {K_question, K_Question, K_text, K_query}}

\* The members a raw candidate carries its options in.
OptionMembers ==
  {<<>>, << <<K_options, JStr(<<"A", "B">>)>> >>,
         << <<K_options, JNull>> >>,
         << <<K_options, JStr(<<>>)>>, <<K_Options, Options(2)>> >>,
         << <<K_options, Options(0)>>, <<K_Options, Options(2)>> >>}
  \cup {<< <<key, Options(n)>> >> :
          key \in {K_options, K_Options, K_choices, K_answers, K_Answers},
          n \in 0..MaxOptions}

\* The decimal text of the integer i.
DecimalString(i) ==
  IF i < 0 THEN <<"-">> \o IntToChars(-i) ELSE IntToChars(i)

\* Texts parseInt finds no number in.
UnparseableStrings == {<<>>, <<"a","b","c">>, <<"x","1">>, <<"-">>}

\* The members a raw candidate carries its correct-answer index in.
IndexMembers ==
  LET correct ==
        {<<>>, << <<K_correctIndex, JNull>> >>,
               << <<K_correctIndex, JBool(TRUE)>> >>,
               << <<K_correctIndex, JNum(-5)>> >>,
               << <<K_correctIndex, JNum(15)>> >>,
               << <<K_correctIndex, JStr(<<" ","1",".","5","x">>)>> >>,
               << <<K_correctIndex, JStr(<<"0","x","2">>)>> >>}
          \cup {<< <<K_correctIndex, JInt(i)>> >> : i \in -1..MaxIndexValue}
          \cup {<< <<K_correctIndex, JStr(DecimalString(i))>> >> :
                  i \in -1..MaxIndexValue}
          \cup {<< <<K_correctIndex, JStr(u)>> >> : u \in UnparseableStrings}
      answer == {<<>>, << <<K_answerIndex, JInt(1)>> >>}
  IN {c \o a : c \in correct, a \in answer}
       \cup {<< <<K_answerIndex, JStr(<<"1">>)>> >>}

\* The raw candidates normalizeQuestion is applied to: records, and the
\* other values an element of a parsed array can be.
RawCandidates ==
  {Obj(qm \o om \o im) :
     qm \in QuestionMembers, om \in OptionMembers, im \in IndexMembers}
  \cup {JNull, JInt(7), JStr(<<"Q">>), JBool(TRUE), Options(2)}

NormalizeInit ==
  /\ nPc = "ready"
  /\ nRaw \in RawCandidates
  /\ nIndex \in 0..(MaxItems - 1)
  /\ nPrefix \in {Prefix("battle"), Prefix("practice")}
  /\ nOut = ReturnedNull
  /\ MarkupIdle
  /\ RequestIdle
  /\ AppIdle

\* nOut = normalizeQuestion(nRaw, nIndex, nPrefix)
Normalize ==
  /\ nPc = "ready"
  /\ nOut' = normalizeQuestion(nRaw, nIndex, nPrefix, now)
  /\ nPc' = "done"
  /\ UNCHANGED <<nRaw, nIndex, nPrefix, markupVars, requestVars, appVars>>

NormalizeNext == Normalize

SpecNormalize == NormalizeInit /\ [][NormalizeNext]_vars

\* ------------------------------------------------------------------------
\* The generation entry points
\* ------------------------------------------------------------------------

E_clamped ==
  Obj(<< <<K_question, JStr(<<"Q","1">>)>>, <<K_options, Options(2)>>,
         <<K_correctIndex, JInt(5)>> >>)
E_markup ==
  Obj(<< <<K_Question, JStr(<<"2","0"," ","e","x","t","{"," ","N","}">>)>>,
         <<K_choices, JArr(<<JStr(<<"$","x","^","{","2","}","$">>),
                             JStr(<<"B">>), JStr(<<"C">>)>>)>>,
         <<K_correctIndex, JStr(<<"1">>)>>,
         <<K_explanation, JStr(<<"E">>)>> >>)
E_noText ==
  Obj(<< <<K_options, Options(2)>>, <<K_correctIndex, JInt(0)>> >>)
E_fewOptions ==
  Obj(<< <<K_question, JStr(<<"Q","2">>)>>, <<K_options, Options(1)>>,
         <<K_correctIndex, JInt(0)>> >>)

\* The elements of the arrays the model answers with.
ResponseElements == {E_clamped, E_markup, E_noText, E_fewOptions, JNull, JInt(7)}

\* The elements of the longest arrays: a valid one and an invalid one.
LongElements == {E_clamped, E_noText}

\* The JSON values the model answers with: arrays, and values of other kinds.
ResponseValues ==
  {JArr(es) : es \in UNION {[1..n -> ResponseElements] : n \in 0..MaxItems}}
  \cup {JArr(es) : es \in [1..(MaxItems + 1) -> LongElements]}
  \cup {Obj(<< <<K_question, JStr(<<"Q","1">>)>> >>),
        Obj(<< <<<<"a">>, JArr(<<JInt(1)>>)>>, <<<<"b">>, JArr(<<JInt(2)>>)>> >>),
        JInt(5), JStr(<<"Q">>), JNull}

Refusal == <<"I"," ","c","a","n","n","o","t"," ","h","e","l","p"," ","w","i","t","h"," ","t","h","a","t",".">>
Preamble == <<"H","e","r","e"," ","y","o","u"," ","g","o",":","\n">>

\* The texts the model answers with: a JSON value bare, and inside a code
\* fence after a line of prose; a refusal; no text.
ResponseTexts ==
  {Stringify(v) : v \in ResponseValues}
  \cup {Preamble \o FenceJson \o <<"\n">> \o Stringify(v) \o <<"\n">> \o Fence :
          v \in ResponseValues}
  \cup {Refusal, <<>>}

\* The readings of the clock while n elements are normalized in turn, from
\* the time t on.
Stamps(n, t) ==
  {st \in [1..n -> t..MaxClock] : \A i \in 1..(n - 1) : st[i] <= st[i + 1]}

Init ==
  /\ RequestIdle
  /\ MarkupIdle
  /\ NormalizeIdle
  /\ AppIdle

\* generateBattleQuestions(count) or generatePracticeQuestions(...) is
\* called and runs up to its await of the model call.
StartRequest(e) ==
  /\ pc \in {"idle", "returned"}
  /\ pc' = "awaiting"
  /\ entry' = e
  /\ modelFailed' = FALSE
  /\ responseText' = <<>>
  /\ rawData' = JUndefined
  /\ outcome' = Completed(<<>>)
  /\ UNCHANGED <<now, markupVars, normalizeVars, appVars>>

\* The model call raises: the catch block returns the empty array.
RequestFails ==
  /\ pc = "awaiting"
  /\ pc' = "returned"
  /\ modelFailed' = TRUE
  /\ outcome' = catchError(Threw)
  /\ \E t \in now..MaxClock : now' = t
  /\ UNCHANGED <<entry, responseText, rawData, markupVars, normalizeVars, appVars>>

\* The model call answers: the rest of the try block runs, and the catch
\* block when it raises.
RequestCompletes ==
  /\ pc = "awaiting"
  /\ pc' = "returned"
  /\ \E text \in ResponseTexts :
       LET rd == rawDataOf(text)
           n == IF rd.t = "array" THEN Len(rd.a) ELSE 0
       IN /\ responseText' = text
          /\ rawData' = rd
          /\ \E t \in now..MaxClock :
               \E st \in Stamps(n, t) :
                 /\ outcome' = catchError(afterResponse(rd, Prefix(entry), st))
                 /\ now' = IF n = 0 THEN t ELSE st[n]
  /\ UNCHANGED <<entry, modelFailed, markupVars, normalizeVars, appVars>>

Next ==
  \/ \E e \in {"battle", "practice"} : StartRequest(e)
  \/ RequestFails
  \/ RequestCompletes

Spec == Init /\ [][Next]_vars

\* ------------------------------------------------------------------------
\* The game flows (components/MainMenu.tsx): the menu, BattleMode and
\* PracticeMode. One flow is mounted at a time, so the two share the
\* variables questions, currentQIndex, inFlight and qs. An event handler runs
\* to its end and the component is rendered again before the next event, so
\* a handler reads the state as the render on screen saw it; a setTimeout
\* callback reads the state as the render that created it saw it, and what
\* it sets may reach the screen after the next event (the variable shown).
\* ------------------------------------------------------------------------

E_half ==
  Obj(<< <<K_question, JStr(<<"Q","3">>)>>, <<K_options, Options(3)>>,
         <<K_correctIndex, JNum(15)>> >>)

E_negative ==
  Obj(<< <<K_question, JStr(<<"Q","4">>)>>, <<K_options, Options(2)>>,
         <<K_correctIndex, JInt(-1)>> >>)

\* The texts the model answers a flow with: arrays of valid candidates (one
\* with 2 options, one with 3, one with the index 1.5), two arrays with a
\* candidate of index -1, and a refusal.
FlowResponseTexts ==
  {Stringify(JArr(es)) :
     es \in UNION {[1..n -> {E_clamped, E_markup, E_half}] : n \in 0..MaxItems}}
  \cup {Stringify(JArr(<<E_negative>>)), Stringify(JArr(<<E_negative, E_clamped>>))}
  \cup {Refusal}

\* What a generation entry point resolves with: the questions of an answer
\* of the model, or the empty array when the model call raised.
Generated(prefix) ==
  {catchError(afterResponse(rawDataOf(text), prefix, [i \in 1..MaxItems |-> 0])).value :
     text \in FlowResponseTexts}
  \cup {catchError(Threw).value}

\* The variables no handler of a flow writes.
otherVars == <<markupVars, normalizeVars, requestVars, service>>

\* onModeSelect(AppMode.BATTLE_SETUP), onModeSelect(AppMode.PRACTICE_SETUP):
\* the flow is mounted in its initial state.
OpenFlow(m) ==
  /\ mode = "MENU"
  /\ mode' = m
  /\ UNCHANGED <<questions, currentQIndex, inFlight, qs, battleVars,
                 practiceVars, otherVars>>

\* The view of BattleMode that is rendered.
BattleView == IF mode = "BATTLE" THEN gameState ELSE "none"

\* The Start Duel button is on the screen, and reacts, in every view.
StartDuelShown_AlsoLoading == BattleView \in {"SETUP", "LOADING"}

\* The Start Duel button is on the screen: in the setup view only.
StartDuelShown == BattleView = "SETUP"

\* startBattle up to its await.
StartBattle ==
  /\ StartDuelShown
  /\ gameState' = "LOADING"
  /\ inFlight' = inFlight + 1
  /\ UNCHANGED <<mode, questions, currentQIndex, qs, scores, winner, locked,
                 lastRoundWinner, timers, answerLog, practiceVars, otherVars>>

\* The state startBattle sets, were it to leave an empty result in the
\* loading view.
gameStateAfter_StayLoading(q) == IF Len(q) > 0 THEN "PLAYING" ELSE "LOADING"

\* The state startBattle sets once the request has resolved with q.
gameStateAfter(q) == IF Len(q) > 0 THEN "PLAYING" ELSE "SETUP"

\* startBattle after its await, generateBattleQuestions having resolved
\* with q.
BattleResolves ==
  /\ mode = "BATTLE"
  /\ inFlight > 0
  /\ \E q \in service.battle :
       /\ qs' = q
       /\ questions' = IF Len(q) > 0 THEN q ELSE questions
       /\ gameState' = gameStateAfter(q)
  /\ inFlight' = inFlight - 1
  /\ UNCHANGED <<mode, currentQIndex, scores, winner, locked, lastRoundWinner,
                 timers, answerLog, practiceVars, otherVars>>

otherPlayer(player) == IF player = "P1" THEN "P2" ELSE "P1"

\* selectedIndex === currentQ.correctIndex
isCorrect(selectedIndex) ==
  selectedIndex * 10 = questions[currentQIndex + 1].correctIndex

\* handleAnswer with no test of the lock.
AnswerIgnored_Never == FALSE

\* if (locked) return;
AnswerIgnored == locked

\* What the callback () => nextQuestion() closes over: the state of the
\* render handleAnswer belongs to.
NextQuestionClosure ==
  [currentQIndex |-> currentQIndex, length |-> Len(questions), scores |-> scores]

\* handleAnswer(player, selectedIndex), from an option button of the
\* playing view.
HandleAnswer(player, selectedIndex) ==
  /\ BattleView = "PLAYING"
  /\ currentQIndex < Len(questions)
  /\ selectedIndex \in 0..(Len(questions[currentQIndex + 1].options) - 1)
  /\ IF AnswerIgnored
       THEN UNCHANGED <<locked, scores, lastRoundWinner, timers, answerLog>>
       ELSE LET w == IF isCorrect(selectedIndex) THEN player
                     ELSE otherPlayer(player)
            IN /\ locked' = TRUE
               /\ scores' = [scores EXCEPT ![w] = @ + 1]
               /\ lastRoundWinner' = w
               /\ timers' = Append(timers, NextQuestionClosure)
               /\ answerLog' = Append(answerLog,
                    [q |-> currentQIndex, player |-> player,
                     selectedIndex |-> selectedIndex])
  /\ UNCHANGED <<mode, gameState, questions, currentQIndex, winner, inFlight,
                 qs, practiceVars, otherVars>>

\* finishGame, reading the scores s.
finishGame(s) ==
  IF s.P1 > s.P2 THEN "P1" ELSE IF s.P2 > s.P1 THEN "P2" ELSE "DRAW"

\* The oldest pending timer fires: nextQuestion (and finishGame) of the
\* render that set it.
NextQuestionFires ==
  /\ mode = "BATTLE"
  /\ timers # <<>>
  /\ timers' = Tail(timers)
  /\ locked' = FALSE
  /\ lastRoundWinner' = "null"
  /\ IF Head(timers).currentQIndex + 1 < Head(timers).length
       THEN /\ currentQIndex' = currentQIndex + 1
            /\ UNCHANGED <<winner, gameState>>
       ELSE /\ winner' = finishGame(Head(timers).scores)
            /\ gameState' = "FINISHED"
            /\ UNCHANGED currentQIndex
  /\ UNCHANGED <<mode, questions, scores, answerLog, inFlight, qs,
                 practiceVars, otherVars>>

\* The view of PracticeMode that is rendered: the tests of the render, in
\* their order.
PracticeView ==
  IF mode # "PRACTICE" THEN "none"
  ELSE IF loading THEN "loading"
  ELSE IF step = 1 THEN "subject"
  ELSE IF step = 2 THEN "chapters"
  ELSE IF step = 3 THEN "config"
  ELSE IF step = 5 THEN "result"
  ELSE IF Len(questions) = 0 THEN "error"
  ELSE "quiz"

\* The state updates of an event handler are rendered before the next event.
\* Those of a setTimeout callback are rendered when React next gets to run: at
\* once under a legacy root, in a later task under a concurrent root, where an
\* input event can be handled before it, by the handlers of the render still
\* on screen. Only the quiz view is kept as a screen of its own: the other
\* callbacks (the battle timers, the code after an await) leave a screen
\* without an enabled button.
ShownView == IF shown.stale THEN "quiz" ELSE PracticeView

\* currentQIndex as the handlers on screen see it.
RenderedQIndex == IF shown.stale THEN shown.currentQIndex ELSE currentQIndex

\* The quiz view is on screen: its render reads currentQ.text, which throws
\* when questions[currentQIndex] is undefined.
QuizShown == ShownView = "quiz" /\ RenderedQIndex < Len(questions)

\* The buttons that only set the step: the view each is in, and the step.
StepButtons ==
  { <<"subject", 2>>, <<"chapters", 1>>, <<"chapters", 3>>, <<"config", 2>>,
    <<"result", 1>>, <<"error", 3>> }

\* onClick={() => setStep(to)} of a button of the view.
SetStep(view, to) ==
  /\ ShownView = view
  /\ step' = to
  /\ UNCHANGED <<mode, questions, currentQIndex, inFlight, qs, loading, answers,
                 autoAdvanceTimer, shown, battleVars, otherVars>>

\* startPractice up to its await.
StartPractice ==
  /\ ShownView = "config"
  /\ loading' = TRUE
  /\ questions' = <<>>
  /\ inFlight' = inFlight + 1
  /\ UNCHANGED <<mode, currentQIndex, qs, step, answers, autoAdvanceTimer,
                 shown, battleVars, otherVars>>

\* startPractice after its await, generatePracticeQuestions having resolved
\* with q.
PracticeResolves ==
  /\ mode = "PRACTICE"
  /\ inFlight > 0
  /\ \E q \in service.practice :
       /\ qs' = q
       /\ IF Len(q) > 0
            THEN /\ questions' = q
                 /\ answers' = [i \in 1..Len(q) |-> -1]
                 /\ currentQIndex' = 0
                 /\ step' = 4
            ELSE /\ step' = 4
                 /\ UNCHANGED <<questions, answers, currentQIndex>>
  /\ loading' = FALSE
  /\ inFlight' = inFlight - 1
  /\ UNCHANGED <<mode, autoAdvanceTimer, shown, battleVars, otherVars>>

\* What the callback () => goToNext() closes over: the state of the render
\* handleSelectAnswer belongs to.
GoToNextClosure ==
  [pending |-> TRUE, currentQIndex |-> RenderedQIndex, length |-> Len(questions)]

\* handleSelectAnswer(optIdx), from an option button of the quiz view.
HandleSelectAnswer(optIdx) ==
  /\ QuizShown
  /\ optIdx \in 0..(Len(questions[RenderedQIndex + 1].options) - 1)
  /\ answers' = [answers EXCEPT ![RenderedQIndex + 1] = optIdx]
  /\ autoAdvanceTimer' =
       IF RenderedQIndex < Len(questions) - 1 THEN GoToNextClosure
       ELSE autoAdvanceTimer
  /\ shown' = Latest
  /\ UNCHANGED <<mode, questions, currentQIndex, inFlight, qs, step, loading,
                 battleVars, otherVars>>

\* goToNext of the render the closure c belongs to.
goToNext(c) ==
  /\ autoAdvanceTimer' = NoTimer
  /\ IF c.currentQIndex < c.length - 1
       THEN currentQIndex' = currentQIndex + 1 /\ UNCHANGED step
       ELSE step' = 5 /\ UNCHANGED currentQIndex
  /\ UNCHANGED <<mode, questions, inFlight, qs, loading, answers, battleVars,
                 otherVars>>

\* goToPrev of the render on screen.
goToPrev ==
  /\ autoAdvanceTimer' = NoTimer
  /\ currentQIndex' = IF RenderedQIndex > 0 THEN currentQIndex - 1 ELSE currentQIndex
  /\ UNCHANGED <<mode, questions, inFlight, qs, step, loading, answers,
                 battleVars, otherVars>>

\* The Next button, shown on every question but the last.
ClickNext ==
  /\ QuizShown
  /\ RenderedQIndex # Len(questions) - 1
  /\ goToNext(GoToNextClosure)
  /\ shown' = Latest

\* The Previous button, disabled on the first question.
ClickPrev ==
  /\ QuizShown
  /\ RenderedQIndex # 0
  /\ goToPrev
  /\ shown' = Latest

\* onTouchEnd after a swipe to the left or to the right.
OnTouchEnd(swipe) ==
  /\ QuizShown
  /\ \/ swipe = "left" /\ goToNext(GoToNextClosure)
     \/ swipe = "right" /\ goToPrev
  /\ shown' = Latest

\* The Finish button, shown on the last question: recordTime(); setStep(5).
FinishExam ==
  /\ QuizShown
  /\ RenderedQIndex = Len(questions) - 1
  /\ step' = 5
  /\ shown' = Latest
  /\ UNCHANGED <<mode, questions, currentQIndex, inFlight, qs, loading, answers,
                 autoAdvanceTimer, battleVars, otherVars>>

\* The auto-advance timer fires: goToNext of the render that set it. The quiz
\* view on screen stays until the new state is rendered.
AutoAdvanceFires ==
  /\ mode = "PRACTICE"
  /\ autoAdvanceTimer.pending
  /\ goToNext(autoAdvanceTimer)
  /\ shown' = IF QuizShown THEN [stale |-> TRUE, currentQIndex |-> RenderedQIndex]
              ELSE Latest

\* React renders the state the timer callback left.
Render ==
  /\ shown.stale
  /\ shown' = Latest
  /\ UNCHANGED <<mode, questions, currentQIndex, inFlight, qs, step, loading,
                 answers, autoAdvanceTimer, battleVars, otherVars>>

\* answers[idx], which is undefined past the end of the array.
answerAt(idx) ==
  IF idx + 1 <= Len(answers) THEN [defined |-> TRUE, v |-> answers[idx + 1]]
  ELSE [defined |-> FALSE, v |-> 0]

\* q.correctIndex === answers[idx], for the question at position idx.
answeredCorrectly(idx) ==
  /\ answerAt(idx).defined
  /\ questions[idx + 1].correctIndex = answerAt(idx).v * 10

\* calculateScore()
calculateScore ==
  Cardinality({idx \in 0..(Len(questions) - 1) : answeredCorrectly(idx)})

\* The label of the question at position idx in the result view.
resultLabel(idx) ==
  IF answeredCorrectly(idx) THEN "CORRECT"
  ELSE IF answerAt(idx).defined /\ answerAt(idx).v = -1 THEN "SKIPPED"
  ELSE "INCORRECT"

\* onBack, from the views that have a button for it: the flow is unmounted
\* (its timers cleared or without effect from then on) and the menu shown.
OnBack ==
  /\ \/ BattleView \in {"SETUP", "FINISHED"}
     \/ ShownView \in {"subject", "result"}
     \/ QuizShown
  /\ mode' = "MENU"
  /\ gameState' = "SETUP" /\ questions' = <<>> /\ currentQIndex' = 0
  /\ scores' = [P1 |-> 0, P2 |-> 0] /\ winner' = "null"
  /\ locked' = FALSE /\ lastRoundWinner' = "null" /\ timers' = <<>>
  /\ step' = 1 /\ loading' = FALSE /\ answers' = <<>>
  /\ autoAdvanceTimer' = NoTimer /\ shown' = Latest
  /\ inFlight' = 0 /\ qs' = <<>> /\ answerLog' = <<>>
  /\ UNCHANGED otherVars

AppInit ==
  /\ mode = "MENU"
  /\ FlowInitial
  /\ service = [battle |-> Generated(Prefix("battle")),
                practice |-> Generated(Prefix("practice"))]
  /\ MarkupIdle
  /\ NormalizeIdle
  /\ RequestIdle

AppNext ==
  \/ \E m \in {"BATTLE", "PRACTICE"} : OpenFlow(m)
  \/ OnBack
  \/ StartBattle
  \/ BattleResolves
  \/ \E player \in {"P1", "P2"} : \E i \in 0..MaxOptions : HandleAnswer(player, i)
  \/ NextQuestionFires
  \/ \E b \in StepButtons : SetStep(b[1], b[2])
  \/ StartPractice
  \/ PracticeResolves
  \/ \E i \in 0..MaxOptions : HandleSelectAnswer(i)
  \/ ClickNext
  \/ ClickPrev
  \/ \E swipe \in {"left", "right"} : OnTouchEnd(swipe)
  \/ FinishExam
  \/ AutoAdvanceFires
  \/ Render

SpecApp == AppInit /\ [][AppNext]_vars

\* ------------------------------------------------------------------------
\* Claims
\* ------------------------------------------------------------------------

\* The alias lists of the question text and of the options, in priority order.
QuestionAliases == <<K_question, K_Question, K_text, K_query>>
OptionAliases == <<K_options, K_Options, K_choices, K_answers>>

\* The value the alias list resolves to: that of the first alias whose
\* value counts as present, undefined when there is none.
Resolved(q, aliases) ==
  LET P == {i \in 1..Len(aliases) : Truthy(Get(q, aliases[i]))}
  IN IF P = {} THEN JUndefined
     ELSE Get(q, aliases[CHOOSE i \in P : \A j \in P : i <= j])

\* A question text resolves, and the options resolve to a sequence of at
\* least 2 elements.
WellFormed(q) ==
  /\ Truthy(Resolved(q, QuestionAliases))
  /\ Resolved(q, OptionAliases).t = "array"
  /\ Len(Resolved(q, OptionAliases).a) >= 2

\* The index v (in tenths) clamped for n options.
Clamped(v, n) ==
  CASE v < 0 -> 0
    [] v >= n * 10 -> (n - 1) * 10
    [] OTHER -> v

\* C1: normalize returns a question for every raw candidate with a question
\* text and at least 2 options; the question has as many options as the
\* candidate and 0 <= correctIndex < options.length, whatever the candidate
\* carries as correctIndex and answerIndex.
C1_WellFormedAccepted ==
  (nPc = "done" /\ nRaw.t = "object" /\ WellFormed(nRaw))
    => /\ nOut.kind = "question"
       /\ Len(nOut.q.options) = Len(Resolved(nRaw, OptionAliases).a)
       /\ 0 <= nOut.q.correctIndex
       /\ nOut.q.correctIndex < Len(nOut.q.options) * 10

\* A well-formed candidate whose index is a string naming a position past
\* the last option, or a number past it, has been normalized to a question.
C1_Witness ==
  /\ nPc = "done" /\ nRaw.t = "object" /\ WellFormed(nRaw)
  /\ \/ Get(nRaw, K_correctIndex).s = DecimalString(MaxIndexValue)
     \/ Get(nRaw, K_correctIndex).n >= MaxIndexValue * 10
  /\ nOut.kind = "question"
  /\ nOut.q.correctIndex = (Len(nOut.q.options) - 1) * 10

\* C2: a generation entry point returns a sequence and raises nothing to its
\* caller; the sequence is empty when the model call failed, when the
\* response text holds no parseable JSON, and when what was parsed is no
\* sequence, or a sequence none of whose elements is a record.
BracketParse(text) ==
  IF IndexOfFrom(text, "[", 1) # 0 /\ LastIndexOf(text, "]") # 0
    THEN JSONParse(jsonCandidate(text))
  ELSE [ok |-> FALSE, v |-> JUndefined]

FenceParse(text) == JSONParse(cleanText(text))

NoParseableJSON(text) ==
  text # <<>> /\ ~BracketParse(text).ok /\ ~FenceParse(text).ok

NoRecords(v) ==
  v.t # "array" \/ \A i \in 1..Len(v.a) : v.a[i].t # "object"

C2_AlwaysASequence ==
  pc = "returned"
    => /\ ~outcome.thrown
       /\ (modelFailed \/ NoParseableJSON(responseText) \/ NoRecords(rawData))
            => outcome.value = <<>>

\* A request has returned the empty sequence after the parsed response
\* turned out to be no array (a record, a number, a string or null).
C2_Witness ==
  /\ pc = "returned" /\ ~modelFailed
  /\ rawData.t \in {"object", "number", "string", "null"}
  /\ outcome = Completed(<<>>)

\* C3: an invalid element does not abort the batch: the entry point returns
\* the normalized valid candidates of the parsed array, in their order, and
\* drops only the others (null and non-record elements among them).
RECURSIVE ValidOnly(_)
ValidOnly(es) ==
  IF es = <<>> THEN <<>>
  ELSE (IF Head(es).t = "object" /\ WellFormed(Head(es)) THEN <<Head(es)>> ELSE <<>>)
         \o ValidOnly(Tail(es))

C3_InvalidItemsDropped ==
  (pc = "returned" /\ ~modelFailed /\ rawData.t = "array")
    => /\ Len(outcome.value) = Len(ValidOnly(rawData.a))
       /\ \A i \in 1..Len(outcome.value) :
            /\ outcome.value[i].text
                 = processText(Resolved(ValidOnly(rawData.a)[i], QuestionAliases))
            /\ Len(outcome.value[i].options)
                 = Len(Resolved(ValidOnly(rawData.a)[i], OptionAliases).a)

\* C4: normalize returns none for every raw candidate in which no question
\* text resolves, or the resolved options are no sequence, or the sequence
\* has fewer than 2 elements.
C4_IllFormedRejected ==
  (nPc = "done" /\ nRaw.t = "object" /\ ~WellFormed(nRaw))
    => nOut.kind = "null"

\* A candidate with a question text and a single option has been rejected.
C4_Witness ==
  /\ nPc = "done" /\ nRaw.t = "object"
  /\ Truthy(Resolved(nRaw, QuestionAliases))
  /\ Resolved(nRaw, OptionAliases).t = "array"
  /\ Len(Resolved(nRaw, OptionAliases).a) = 1
  /\ nOut.kind = "null"

\* C5: a raw candidate with its question under the key Question and its
\* options (at least 2) under the key Answers is normalized to a question.
C5_QuestionAnswersAccepted ==
  (/\ nPc = "done" /\ nRaw.t = "object"
   /\ Get(nRaw, K_question).t = "undefined"
   /\ Get(nRaw, K_options).t = "undefined"
   /\ Truthy(Get(nRaw, K_Question))
   /\ Get(nRaw, K_Answers).t = "array"
   /\ Len(Get(nRaw, K_Answers).a) >= 2)
    => nOut.kind = "question"

\* C6: simplify is idempotent: a second application of latexToSimple to its
\* own result returns that result unchanged.
C6_SimplifyIdempotent ==
  (mOp = "simplify" /\ mPasses >= 2) => mCur = mPrev

\* C7: repair is idempotent: a second application of repairMalformedLatex
\* to its own result returns that result unchanged.
C7_RepairIdempotent ==
  (mOp = "repair" /\ mPasses >= 2) => mCur = mPrev

\* C8: an out-of-range index is clamped, never rejected: a well-formed
\* candidate whose index is the number v (under correctIndex, or under
\* answerIndex when correctIndex is absent or null) and which has n options
\* is normalized to a question with correctIndex 0 when v < 0, n - 1 when
\* v >= n, and v otherwise.
NumericIndex(q) ==
  \/ Get(q, K_correctIndex).t = "number"
  \/ /\ Get(q, K_correctIndex).t \in {"undefined", "null"}
     /\ Get(q, K_answerIndex).t = "number"

IndexNumber(q) ==
  IF Get(q, K_correctIndex).t = "number" THEN Get(q, K_correctIndex).n
  ELSE Get(q, K_answerIndex).n

C8_OutOfRangeClamped ==
  (nPc = "done" /\ nRaw.t = "object" /\ WellFormed(nRaw) /\ NumericIndex(nRaw))
    => /\ nOut.kind = "question"
       /\ nOut.q.correctIndex
            = Clamped(IndexNumber(nRaw), Len(Resolved(nRaw, OptionAliases).a))

\* A candidate with 2 options and the number 4 as correctIndex has been
\* normalized to a question with correctIndex 1.
C8_Witness ==
  /\ nPc = "done" /\ nRaw.t = "object"
  /\ Get(nRaw, K_correctIndex) = JInt(4)
  /\ Get(nRaw, K_options) = Options(2)
  /\ nOut.kind = "question"
  /\ nOut.q.correctIndex = 10

\* C9: a correctIndex that is a string is parsed: the decimal text of an
\* integer i resolves to i (then clamped), a text with no number in it to 0,
\* whatever answerIndex is; answerIndex is the index only when correctIndex
\* is neither a number nor a string.
C9_StringIndexParsed ==
  (nPc = "done" /\ nRaw.t = "object" /\ WellFormed(nRaw))
    => LET n == Len(Resolved(nRaw, OptionAliases).a)
           ci == Get(nRaw, K_correctIndex)
           ai == Get(nRaw, K_answerIndex)
       IN /\ \A i \in -1..MaxIndexValue :
               (ci.t = "string" /\ ci.s = DecimalString(i))
                 => nOut.q.correctIndex = Clamped(i * 10, n)
          /\ (ci.t = "string" /\ ci.s \in UnparseableStrings)
               => nOut.q.correctIndex = 0
          /\ (ci.t = "number" /\ ai.t = "number")
               => nOut.q.correctIndex = Clamped(ci.n, n)
          /\ (ci.t \notin {"number", "string"} /\ ai.t = "number")
               => nOut.q.correctIndex = Clamped(ai.n, n)

\* A candidate with 3 options, the string "2" as correctIndex and the number
\* 1 as answerIndex has been normalized to a question with correctIndex 2.
C9_Witness ==
  /\ nPc = "done" /\ nRaw.t = "object"
  /\ Get(nRaw, K_correctIndex) = JStr(<<"2">>)
  /\ Get(nRaw, K_answerIndex) = JInt(1)
  /\ Len(Resolved(nRaw, OptionAliases).a) = 3
  /\ nOut.kind = "question"
  /\ nOut.q.correctIndex = 20

\* C10: extract falls back: when the text from the first "[" to the last "]"
\* does not parse, or there are no such brackets, it returns the value the
\* fence-stripped, trimmed text parses to, and the empty sequence only when
\* that does not parse either.
C10_TwoStrategyFallback ==
  (pc = "returned" /\ ~modelFailed /\ responseText # <<>>)
    => rawData = IF BracketParse(responseText).ok THEN BracketParse(responseText).v
                 ELSE IF FenceParse(responseText).ok THEN FenceParse(responseText).v
                 ELSE JArr(<<>>)

\* C11: extract returns a sequence for every text: what cleanAndParseJSON
\* returns to the entry point is an array, never a number, a string, a
\* record or null.
C11_ExtractReturnsSequence ==
  (pc = "returned" /\ ~modelFailed) => rawData.t = "array"

\* The timestamp component of an id: the characters between its first and
\* its last "-".
IdStamp(id) == SubSeq(id, IndexOfFrom(id, "-", 1) + 1, LastIndexOf(id, "-") - 1)

\* C12: the ids of the questions one generation call returns are pairwise
\* distinct, also when all carry the same timestamp and when candidates of
\* the batch were rejected.
C12_IdsDistinct ==
  pc = "returned"
    => \A i, j \in 1..Len(outcome.value) :
         i # j => outcome.value[i].id # outcome.value[j].id

\* A call has returned two questions or more that carry one timestamp, out
\* of an array some of whose candidates were rejected.
C12_Witness ==
  /\ pc = "returned" /\ rawData.t = "array"
  /\ Len(outcome.value) >= 2
  /\ Len(outcome.value) < Len(rawData.a)
  /\ \A i, j \in 1..Len(outcome.value) :
       /\ IdStamp(outcome.value[i].id) = IdStamp(outcome.value[j].id)
       /\ i # j => outcome.value[i].id # outcome.value[j].id

\* The tokens repair lists: those that end in "{", and the words.
BraceTokens ==
  { <<"e","x","t","{">>, <<"f","r","a","c","{">>, <<"s","q","r","t","{">> }
WordTokens ==
  { <<"t","i","m","e","s">>, <<"m","u">>, <<"p","i">>, <<"t","h","e","t","a">> }
ListedTokens == BraceTokens \cup WordTokens

\* The token tok stands at position i of s as a standalone token: after
\* whitespace or at the start of s and, for a word, before whitespace or at
\* the end of s.
Standalone(s, i, tok) ==
  /\ StartsWith(s, i, tok)
  /\ i = 1 \/ IsSpace(s[i - 1])
  /\ tok \in WordTokens
       => (i + Len(tok) - 1 = Len(s) \/ IsSpace(s[i + Len(tok)]))

\* Every occurrence of a listed token follows the escape character or is
\* part of a longer word.
NoStandalone(s) ==
  \A tok \in ListedTokens : \A i \in 1..Len(s) : ~Standalone(s, i, tok)

\* C13: repair returns unchanged every text in which no listed token stands
\* as a standalone token (each occurrence follows the escape character or is
\* embedded in a longer word).
C13_WellFormedUnchanged ==
  (mOp = "repair" /\ mPasses >= 1 /\ NoStandalone(mIn)) => mCur = mIn

\* repair has returned unchanged a text in which a listed word follows the
\* escape character and another is embedded in a longer word.
C13_Witness ==
  /\ mOp = "repair" /\ mPasses = 1
  /\ mIn = <<BS, "p", "i", "m", "u">>
  /\ mCur = mIn

\* The text s from position i on, with the escape character in front of
\* every standalone occurrence of a listed token (and the "t" that ext{
\* lacks to be the unit wrapper).
RECURSIVE EscapedFrom(_, _)
EscapedFrom(s, i) ==
  IF i > Len(s) THEN <<>>
  ELSE (IF Standalone(s, i, <<"e","x","t","{">>) THEN <<BS, "t">>
        ELSE IF \E tok \in ListedTokens : Standalone(s, i, tok) THEN <<BS>>
        ELSE <<>>)
         \o <<s[i]>> \o EscapedFrom(s, i + 1)

\* C14: one call of repair puts the escape character in front of every
\* standalone occurrence of a listed token, and changes nothing else.
C14_EveryStandaloneEscaped ==
  (mOp = "repair" /\ mPasses = 1) => mCur = EscapedFrom(mIn, 1)

\* C17: the ids of the questions one generation call returns carry one and
\* the same timestamp, also when the clock advances while the batch is
\* normalized.
C17_OneTimestampPerBatch ==
  pc = "returned"
    => \A i, j \in 1..Len(outcome.value) :
         IdStamp(outcome.value[i].id) = IdStamp(outcome.value[j].id)

\* C18: the correctIndex of a question normalize returns is an integer (a
\* whole number of tenths), whatever number the candidate carries.
C18_IndexIsInteger ==
  (nPc = "done" /\ nOut.kind = "question") => nOut.q.correctIndex % 10 = 0

\* C15: a generation request that resolves with the empty sequence takes the
\* flow out of its loading view into one that offers a retry: BattleMode
\* into the setup view, PracticeMode into the error view, whose only button
\* sets the configuration step. No flow shows its loading view when no
\* request is in flight, or its playing view with no question.
C15_EmptyResultOffersRetry ==
  /\ [](inFlight = 0 => (BattleView # "LOADING" /\ PracticeView # "loading"))
  /\ [](BattleView = "PLAYING" => Len(questions) > 0)
  /\ []((mode = "PRACTICE" /\ step = 4 /\ ~loading /\ Len(questions) = 0)
          => PracticeView = "error")
  /\ [][(inFlight' < inFlight /\ qs' = <<>>)
          => /\ mode = "BATTLE" => BattleView' = "SETUP"
             /\ mode = "PRACTICE" => PracticeView' = "error"]_vars
  /\ [][(PracticeView = "error" /\ PracticeView' # "error")
          => PracticeView' = "config"]_vars

\* PracticeMode shows its error view, no request being in flight.
C15_Witness ==
  PracticeView = "error" /\ inFlight = 0 /\ qs = <<>>

\* C16: a flow has at most one generation request in flight, and shows its
\* loading view for as long as it has one.
C16_OneRequestInFlight ==
  /\ inFlight \in {0, 1}
  /\ inFlight = 1 => (BattleView = "LOADING" \/ PracticeView = "loading")

\* PracticeMode has a request in flight that was started after a quiz of an
\* earlier request had been answered.
C16_Witness ==
  /\ inFlight = 1 /\ PracticeView = "loading"
  /\ \E i \in 1..Len(answers) : answers[i] # -1

\* The player an accepted answer gives the point to: the answering player
\* when the answer is correct, the other player when it is not.
RoundWinner(a) ==
  IF a.selectedIndex * 10 = questions[a.q + 1].correctIndex THEN a.player
  ELSE otherPlayer(a.player)

\* The accepted answers that give their point to player p.
Points(p) ==
  Cardinality({k \in 1..Len(answerLog) : RoundWinner(answerLog[k]) = p})

\* C19: in BattleMode each question takes one answer, which gives one point
\* to the answering player when correct and to the other player when not;
\* P1 + P2 is the number of questions answered, and questions.length when
\* the game is FINISHED.
C19_OnePointPerQuestion ==
  mode = "BATTLE"
    => /\ \A k \in 1..Len(answerLog) : answerLog[k].q = k - 1
       /\ Len(answerLog) = currentQIndex + (IF locked \/ gameState = "FINISHED"
                                              THEN 1 ELSE 0)
            \/ gameState \in {"SETUP", "LOADING"}
       /\ scores.P1 = Points("P1")
       /\ scores.P2 = Points("P2")
       /\ scores.P1 + scores.P2 = Len(answerLog)
       /\ gameState = "FINISHED" => scores.P1 + scores.P2 = Len(questions)

\* A battle of two questions or more is FINISHED, one of its answers having
\* been incorrect and one correct.
C19_Witness ==
  /\ BattleView = "FINISHED"
  /\ Len(questions) >= 2
  /\ \E k \in 1..Len(answerLog) : RoundWinner(answerLog[k]) # answerLog[k].player
  /\ \E k \in 1..Len(answerLog) : RoundWinner(answerLog[k]) = answerLog[k].player
  /\ scores.P1 + scores.P2 = Len(questions)

\* C20: when the battle is FINISHED the winner agrees with the scores shown:
\* P1 exactly when P1 has more points, P2 exactly when P2 has more, DRAW
\* exactly when they have as many.
C20_WinnerAgreesWithScores ==
  BattleView = "FINISHED"
    => /\ winner = "P1" <=> scores.P1 > scores.P2
       /\ winner = "P2" <=> scores.P2 > scores.P1
       /\ winner = "DRAW" <=> scores.P1 = scores.P2

\* C21: in PracticeMode a question whose recorded answer is still -1 is not
\* counted by calculateScore and is not labelled CORRECT, so the score is at
\* most the number of answered questions.
C21_UnansweredNeverCorrect ==
  mode = "PRACTICE"
    => /\ \A idx \in 0..(Len(questions) - 1) :
            (answerAt(idx).defined /\ answerAt(idx).v = -1)
              => /\ ~answeredCorrectly(idx)
                 /\ resultLabel(idx) # "CORRECT"
       /\ calculateScore
            <= Cardinality({idx \in 0..(Len(questions) - 1) :
                              answerAt(idx).defined /\ answerAt(idx).v # -1})

\* The result view shows a skipped question whose index was clamped up to 0
\* next to one answered correctly.
C21_Witness ==
  /\ PracticeView = "result"
  /\ \E idx \in 0..(Len(questions) - 1) :
       /\ answers[idx + 1] = -1
       /\ questions[idx + 1].correctIndex = 0
       /\ resultLabel(idx) = "SKIPPED"
  /\ calculateScore >= 1

\* C22: while PracticeMode is at step 4 with a non-empty question list (the
\* quiz view), 0 <= currentQIndex < questions.length, whatever the order of
\* answer selections, Next and Previous clicks, swipes, timer firings and new
\* quizzes.
C22_IndexInRange ==
  PracticeView = "quiz" => (0 <= currentQIndex /\ currentQIndex < Len(questions))

====
